---- MODULE Spec2Model ----
(***************************************************************************)
(* Model of the qualifying-timeline aggregation of                         *)
(* "depreciated /data_processing_old.py": process_qualifying_data and the  *)
(* pure helpers it calls, of the split of the timeline into team stints   *)
(* (spec 4.4), and of the driver timeline of "src/dashboard.py" that      *)
(* reads the stint records.                                                *)
(*                                                                         *)
(* Representation.  A nullable number (a pandas NaN / Python None) is the  *)
(* empty sequence NaN == <<>>, a present number v is <<v>>.  A missing     *)
(* TeamName is the string NoTeam (the text pandas.read_csv reads as NaN).  *)
(* A mean or a ratio is kept exact, as the pair of its numerator and its   *)
(* denominator.  Times are whole numbers of time units.                    *)
(***************************************************************************)
EXTENDS Integers, Sequences, FiniteSets

VARIABLES
    quali_data,           \* the input table: a sequence of rows
    columns,              \* the column names of the input table
    pc,                   \* position in process_qualifying_data
    driver_team_mapping,  \* (year, driver) -> first-seen TeamName
    year_idx,             \* index of the season of the outer loop (line 220)
    pending,              \* drivers of year_drivers the loop of line 228 has not visited
    timeline_data,        \* the list of entries being built / returned
    prev_timeline,        \* output of an earlier run on the same table (NaN: none)
    stint_data,           \* the timeline split into team stints (NaN: not yet split)
    panels,               \* what the dashboard shows for the selected driver (NaN: nothing)
    data_folder,          \* the input folder of the CLI: NaN when it does not exist,
                          \* else Some(its CSV files in the order glob yields them)
    output_file,          \* the file at the output path (NaN: none)
    output_before,        \* the file at the output path when the run began
    reported,             \* main has printed its success message
    loggerDict,           \* logging.root.manager.loggerDict: the named loggers of the process
    mkdir_ok,             \* the cache and output directories can be created
    cache_ok,             \* fastf1.Cache.enable_cache succeeds
    reload,               \* F1DataFetcher.reload
    fetch_years,          \* the argument of fetch_qualifying_data
    fetch_idx,            \* position of the loop of line 94 in fetch_years
    csv_files,            \* year -> the year's output CSV (NaN: no such file)
    results,              \* the dict of line 91
    attempt,              \* the loop variable of _get_schedule (line 143)
    schedule_log,         \* what _get_schedule did for the current year, in order
    schedule,             \* the schedule of the current year (NaN: None)
    event_idx,            \* position of the loop of line 179 in the schedule
    yearly_data,          \* the list of line 177: the events loaded so far
    year_log              \* per position of fetch_years: what the handling of that year did

pipeline_vars == <<data_folder, output_file, output_before, reported>>

fetch_vars == <<loggerDict, mkdir_ok, cache_ok, reload, fetch_years, fetch_idx, csv_files,
                results, attempt, schedule_log, schedule, event_idx, yearly_data,
                year_log>>

vars == <<quali_data, columns, pc, driver_team_mapping, year_idx, pending,
          timeline_data, prev_timeline, stint_data, panels, pipeline_vars,
          fetch_vars>>

----------------------------------------------------------------------------
(* Bounds of the input families *)

MaxTime == 2
MaxPos == 2
MaxRows == 3
MaxFiles == 2

Drivers == {"A", "B", "C"}
Teams == {"X", "Y"}
Events == {"R1", "R2"}

----------------------------------------------------------------------------
(* Nullable values *)

NaN == <<>>
Some(v) == <<v>>
isna(x) == x = NaN
notna(x) == x # NaN
NoTeam == "NaN"

(* pandas Series.unique(): distinct values in order of first appearance *)
RECURSIVE unique(_)
unique(s) ==
    IF s = <<>> THEN <<>>
    ELSE LET r == unique(SubSeq(s, 1, Len(s) - 1))
             x == s[Len(s)]
         IN  IF \E i \in DOMAIN r : r[i] = x THEN r ELSE Append(r, x)

Column(df, col) == [i \in DOMAIN df |-> df[i][col]]
Range(s) == {s[i] : i \in DOMAIN s}

RECURSIVE SumSeq(_)
SumSeq(s) == IF s = <<>> THEN 0 ELSE s[1] + SumSeq(Tail(s))

(* values of a list of nullable numbers that are not NaN, unwrapped *)
RECURSIVE Valid(_)
Valid(s) ==
    IF s = <<>> THEN <<>>
    ELSE IF isna(s[1]) THEN Valid(Tail(s)) ELSE <<s[1][1]>> \o Valid(Tail(s))

(* np.mean of a non-empty list, exact *)
Mean(s) == [sum |-> SumSeq(s), n |-> Len(s)]

----------------------------------------------------------------------------
(* Pure helpers of data_processing_old.py *)

(* variant: the numerically smallest of the segment times *)
get_best_time_Fastest(driver_data) ==
    LET present == {t \in {driver_data.Q1Seconds, driver_data.Q2Seconds,
                           driver_data.Q3Seconds} : notna(t)}
    IN  IF present = {} THEN NaN
        ELSE CHOOSE t \in present : \A u \in present : t[1] <= u[1]

get_best_time(driver_data) ==
    IF notna(driver_data.Q3Seconds) THEN driver_data.Q3Seconds
    ELSE IF notna(driver_data.Q2Seconds) THEN driver_data.Q2Seconds
    ELSE IF notna(driver_data.Q1Seconds) THEN driver_data.Q1Seconds
    ELSE NaN

(* variant: no forced zero at position 1 *)
calculate_gap_to_pole_NoForcedZero(position, best_time, pole_time) ==
    IF isna(position) THEN NaN
    ELSE IF isna(best_time) \/ isna(pole_time) THEN NaN
    ELSE Some(best_time[1] - pole_time[1])

(* variant: a missing position is not looked at *)
calculate_gap_to_pole_NoPositionCheck(position, best_time, pole_time) ==
    IF position = Some(1) THEN Some(0)
    ELSE IF isna(best_time) \/ isna(pole_time) THEN NaN
    ELSE Some(best_time[1] - pole_time[1])

(* variant: a missing time gives a gap of 0 *)
calculate_gap_to_pole_ZeroWhenNoTime(position, best_time, pole_time) ==
    IF isna(position) THEN NaN
    ELSE IF position = Some(1) THEN Some(0)
    ELSE IF isna(best_time) \/ isna(pole_time) THEN Some(0)
    ELSE Some(best_time[1] - pole_time[1])

calculate_gap_to_pole(position, best_time, pole_time) ==
    IF isna(position) THEN NaN
    ELSE IF position = Some(1) THEN Some(0)
    ELSE IF isna(best_time) \/ isna(pole_time) THEN NaN
    ELSE Some(best_time[1] - pole_time[1])

(* variant: the flag is set when the teammate gap is missing *)
create_event_summary_FlagInverted(event_name, position, gap_to_pole, teammate_gap) ==
    [round |-> event_name,
     position |-> position,
     gapToPole |-> gap_to_pole,
     teammateGap |-> teammate_gap,
     hasTeammateData |-> isna(teammate_gap)]

create_event_summary(event_name, position, gap_to_pole, teammate_gap) ==
    [round |-> event_name,
     position |-> position,
     gapToPole |-> gap_to_pole,
     teammateGap |-> teammate_gap,
     hasTeammateData |-> ~isna(teammate_gap)]

create_driver_entry(year, driver, team) ==
    [year |-> year,
     driver |-> driver,
     team |-> team,
     events |-> <<>>,
     positions |-> <<>>,
     gapToPole_values |-> <<>>,
     teammateGap_values |-> <<>>,
     completeDataCount |-> 0,
     totalEvents |-> 0]

(* rows of df whose BroadcastName is driver *)
RowsOfDriver(df, driver) == SelectSeq(df, LAMBDA r : r.BroadcastName = driver)

(* variant: compares the first two drivers of any team of two or more *)
calculate_teammate_gaps_FirstPair(team_data) ==
    LET drivers == unique(Column(team_data, "BroadcastName"))
        gaps == [d \in Range(drivers) |-> NaN]
    IN  IF Len(drivers) >= 2
        THEN LET driver1 == drivers[1]
                 driver2 == drivers[2]
                 time1 == get_best_time(RowsOfDriver(team_data, driver1)[1])
                 time2 == get_best_time(RowsOfDriver(team_data, driver2)[1])
             IN  IF notna(time1) /\ notna(time2)
                 THEN [d \in Range(drivers) |->
                          IF d = driver1 THEN Some(time1[1] - time2[1])
                          ELSE IF d = driver2 THEN Some(time2[1] - time1[1])
                          ELSE NaN]
                 ELSE gaps
        ELSE gaps

calculate_teammate_gaps(team_data) ==
    LET drivers == unique(Column(team_data, "BroadcastName"))
        gaps == [d \in Range(drivers) |-> NaN]
    IN  IF Len(drivers) = 2
        THEN LET driver1 == drivers[1]
                 driver2 == drivers[2]
                 time1 == get_best_time(RowsOfDriver(team_data, driver1)[1])
                 time2 == get_best_time(RowsOfDriver(team_data, driver2)[1])
             IN  IF notna(time1) /\ notna(time2)
                 THEN [d \in Range(drivers) |->
                          IF d = driver1 THEN Some(time1[1] - time2[1])
                          ELSE Some(time2[1] - time1[1])]
                 ELSE gaps
        ELSE gaps

(* dict.get(key, default) on a gaps dictionary *)
gaps_get(gaps, driver) == IF driver \in DOMAIN gaps THEN gaps[driver] ELSE NaN

----------------------------------------------------------------------------
(* process_qualifying_data *)

YearData(df, year) == SelectSeq(df, LAMBDA r : r.Year = year)
EventData(year_data, event_name) ==
    SelectSeq(year_data, LAMBDA r : r.EventName = event_name)

(* a comparison with a missing TeamName is False for every row *)
TeamData(event_data, team) ==
    SelectSeq(event_data, LAMBDA r : team # NoTeam /\ r.TeamName = team)

all_years(df) == unique(Column(df, "Year"))
(* variant: events in the order of their last appearance, latest first *)
RECURSIVE Reverse(_)
Reverse(s) == IF s = <<>> THEN <<>> ELSE Append(Reverse(Tail(s)), s[1])
all_events_LatestFirst(year_data) ==
    unique(Reverse(Column(year_data, "EventName")))

all_events(year_data) == unique(Column(year_data, "EventName"))
year_drivers(year_data) == Range(unique(Column(year_data, "BroadcastName")))

(* variant: every row overwrites the team of its (year, driver) *)
FirstTeams_LastSeen(df) ==
    [key \in {<<df[i].Year, df[i].BroadcastName>> : i \in DOMAIN df} |->
        LET last == CHOOSE i \in DOMAIN df :
                        /\ <<df[i].Year, df[i].BroadcastName>> = key
                        /\ \A j \in (i + 1)..Len(df) :
                              <<df[j].Year, df[j].BroadcastName>> # key
        IN  df[last].TeamName]

(* lines 212-218: the first TeamName seen for each (year, driver) *)
FirstTeams(df) ==
    [key \in {<<df[i].Year, df[i].BroadcastName>> : i \in DOMAIN df} |->
        LET first == CHOOSE i \in DOMAIN df :
                        /\ <<df[i].Year, df[i].BroadcastName>> = key
                        /\ \A j \in 1..(i - 1) :
                              <<df[j].Year, df[j].BroadcastName>> # key
        IN  df[first].TeamName]

(* variant: an event without a position-1 row has pole time 0 *)
PoleTime_ZeroWhenNoPole(event_data) ==
    LET pole_data == SelectSeq(event_data, LAMBDA r : r.Position = Some(1))
    IN  IF pole_data # <<>> THEN pole_data[1].Q3Seconds ELSE Some(0)

(* lines 240-242 *)
PoleTime(event_data) ==
    LET pole_data == SelectSeq(event_data, LAMBDA r : r.Position = Some(1))
    IN  IF pole_data # <<>> THEN pole_data[1].Q3Seconds ELSE NaN

(* variant: the teammate gap is looked at only under a gap to pole *)
Accumulate_Nested(driver_entry, gap_to_pole, teammate_gap) ==
    IF notna(gap_to_pole)
    THEN [driver_entry EXCEPT
            !.gapToPole_values = Append(@, gap_to_pole),
            !.teammateGap_values =
                IF notna(teammate_gap) THEN Append(@, teammate_gap) ELSE @,
            !.completeDataCount = IF notna(teammate_gap) THEN @ + 1 ELSE @]
    ELSE driver_entry

(* lines 262-266: what an event the driver took part in adds to the lists *)
Accumulate(driver_entry, gap_to_pole, teammate_gap) ==
    [driver_entry EXCEPT
        !.gapToPole_values =
            IF notna(gap_to_pole) THEN Append(@, gap_to_pole) ELSE @,
        !.teammateGap_values =
            IF notna(teammate_gap) THEN Append(@, teammate_gap) ELSE @,
        !.completeDataCount = IF notna(teammate_gap) THEN @ + 1 ELSE @]

(* lines 237-270: one iteration of the event loop for one driver entry *)
EventLoopBody(driver_entry, year_data, driver, team, event_name) ==
    LET event_data == EventData(year_data, event_name)
        pole_time == PoleTime(event_data)
        driver_event_data == RowsOfDriver(event_data, driver)
        gaps == calculate_teammate_gaps(TeamData(event_data, team))
        driver_data == driver_event_data[1]
        best_time == get_best_time(driver_data)
        qualifying_position == driver_data.Position
        gap_to_pole == calculate_gap_to_pole(qualifying_position, best_time, pole_time)
        event_summary ==
            IF driver_event_data = <<>>
            THEN create_event_summary(event_name, NaN, NaN, NaN)
            ELSE create_event_summary(event_name, qualifying_position, gap_to_pole,
                                      gaps_get(gaps, driver))
        accumulated ==
            IF driver_event_data = <<>>
            THEN driver_entry
            ELSE Accumulate(driver_entry, gap_to_pole, gaps_get(gaps, driver))
    IN  [accumulated EXCEPT
            !.events = Append(@, event_summary),
            !.positions = Append(@, event_summary.position),
            !.totalEvents = @ + 1]

RECURSIVE EventLoop(_, _, _, _, _)
EventLoop(driver_entry, year_data, driver, team, events) ==
    IF events = <<>> THEN driver_entry
    ELSE EventLoop(EventLoopBody(driver_entry, year_data, driver, team, events[1]),
                   year_data, driver, team, Tail(events))

(* lines 233-270: the entry of one driver of a season, before finalization *)
DriverLoopBody(year_data, year, driver, team) ==
    EventLoop(create_driver_entry(year, driver, team), year_data, driver, team,
              all_events(year_data))

(* variant: an empty list averages to 0 *)
average_ZeroWhenEmpty(values) ==
    IF values # <<>> THEN Some(Mean(values)) ELSE Some([sum |-> 0, n |-> 1])

(* lines 278-280: np.mean(values) if values else np.nan *)
average(values) == IF values # <<>> THEN Some(Mean(values)) ELSE NaN

(* variant: the ratio is taken over the events the driver has a position in *)
completeness_OverClassified(entry) ==
    IF Len(Valid(entry.positions)) > 0
    THEN [sum |-> entry.completeDataCount, n |-> Len(Valid(entry.positions))]
    ELSE [sum |-> 0, n |-> 1]

(* line 281: completeDataCount / totalEvents if totalEvents > 0 else 0 *)
completeness(entry) ==
    IF entry.totalEvents > 0
    THEN [sum |-> entry.completeDataCount, n |-> entry.totalEvents]
    ELSE [sum |-> 0, n |-> 1]

(* variant: the clean-up leaves the event counters in the entry *)
FinalizeEntry_KeepsCounters(entry) ==
    [year |-> entry.year,
     driver |-> entry.driver,
     team |-> entry.team,
     events |-> entry.events,
     avgQualifyingPosition |-> average(Valid(entry.positions)),
     avgGapToPole |-> average(Valid(entry.gapToPole_values)),
     avgTeammateGap |-> average(Valid(entry.teammateGap_values)),
     dataCompleteness |-> completeness(entry),
     completeDataCount |-> entry.completeDataCount,
     totalEvents |-> entry.totalEvents]

(* variant: the average gap to pole is taken from the positions *)
FinalizeEntry_GapFromPositions(entry) ==
    [year |-> entry.year,
     driver |-> entry.driver,
     team |-> entry.team,
     events |-> entry.events,
     avgQualifyingPosition |-> average(Valid(entry.positions)),
     avgGapToPole |-> average(Valid(entry.positions)),
     avgTeammateGap |-> average(Valid(entry.teammateGap_values)),
     dataCompleteness |-> completeness(entry)]

(* lines 274-286: final statistics of one entry, accumulator keys deleted *)
FinalizeEntry(entry) ==
    LET valid_positions == Valid(entry.positions)
        valid_gaps_to_pole == Valid(entry.gapToPole_values)
        valid_teammate_gaps == Valid(entry.teammateGap_values)
    IN  [year |-> entry.year,
         driver |-> entry.driver,
         team |-> entry.team,
         events |-> entry.events,
         avgQualifyingPosition |-> average(valid_positions),
         avgGapToPole |-> average(valid_gaps_to_pole),
         avgTeammateGap |-> average(valid_teammate_gaps),
         dataCompleteness |-> completeness(entry)]

----------------------------------------------------------------------------
(* Stint Segmenter (spec 4.4).  The event-ordered team affiliation of a   *)
(* driver is read from the rows of the season; an event the driver missed *)
(* stays with the stint around it.                                         *)

RECURSIVE Concat(_)
Concat(ss) == IF ss = <<>> THEN <<>> ELSE ss[1] \o Concat(Tail(ss))

Ascending(S) ==
    CHOOSE s \in [1..Cardinality(S) -> S] :
        \A i, j \in 1..Cardinality(S) : (i < j) => s[i] < s[j]

(* the team of the driver's row at the event, NaN when the driver has none *)
TeamAt(year_data, event_name, driver) ==
    LET rows == RowsOfDriver(EventData(year_data, event_name), driver)
    IN  IF rows = <<>> THEN NaN ELSE Some(rows[1].TeamName)

affiliation(year_data, driver) ==
    [k \in DOMAIN all_events(year_data) |->
        TeamAt(year_data, all_events(year_data)[k], driver)]

(* the team of the latest event before k the driver took part in *)
LastTeamBefore(aff, k) ==
    LET before == {j \in 1..(k - 1) : notna(aff[j])}
    IN  IF before = {} THEN NaN
        ELSE aff[CHOOSE j \in before : \A i \in before : i <= j]

(* variant: a stint starts only at the first event of a team not seen before *)
stint_starts_PerTeam(aff) ==
    {k \in DOMAIN aff :
        \/ k = 1
        \/ /\ notna(aff[k])
           /\ notna(LastTeamBefore(aff, k))
           /\ \A j \in 1..(k - 1) : aff[j] # aff[k]}

(* a stint starts at the first event and at every event whose team differs *)
(* from the team of the driver's previous appearance                       *)
stint_starts(aff) ==
    {k \in DOMAIN aff :
        \/ k = 1
        \/ /\ notna(aff[k])
           /\ notna(LastTeamBefore(aff, k))
           /\ aff[k] # LastTeamBefore(aff, k)}

(* the maximal contiguous runs, as pairs of first and last event index *)
stint_ranges(aff) ==
    LET starts == Ascending(stint_starts(aff))
    IN  [j \in DOMAIN starts |->
            <<starts[j], IF j < Len(starts) THEN starts[j + 1] - 1 ELSE Len(aff)>>]

(* the team of a run: the team of the first event of the run the driver   *)
(* took part in                                                            *)
StintTeam(aff, lo, hi) ==
    LET present == {k \in lo..hi : notna(aff[k])}
    IN  IF present = {} THEN NoTeam
        ELSE aff[CHOOSE k \in present : \A i \in present : k <= i][1]

(* averages and completeness of spec 3, from the event summaries *)
FieldMean(events, field) ==
    LET values == Valid([k \in DOMAIN events |-> events[k][field]])
    IN  IF values = <<>> THEN NaN ELSE Some(Mean(values))
StintCompleteness(events) ==
    IF Len(events) = 0 THEN [sum |-> 0, n |-> 1]
    ELSE [sum |-> Cardinality({k \in DOMAIN events : events[k].hasTeammateData}),
          n |-> Len(events)]

(* one stint: the entry of 4.3 over the events lo..hi of the season, with *)
(* the stint's team, and the stint metadata                                *)
StintEntry(year_data, year, driver, lo, hi) ==
    LET aff == affiliation(year_data, driver)
        team == StintTeam(aff, lo, hi)
        rounds == SubSeq(all_events(year_data), lo, hi)
        events == EventLoop(create_driver_entry(year, driver, team),
                            year_data, driver, team, rounds).events
    IN  [year |-> year,
         driver |-> driver,
         team |-> team,
         events |-> events,
         avgQualifyingPosition |-> FieldMean(events, "position"),
         avgGapToPole |-> FieldMean(events, "gapToPole"),
         avgTeammateGap |-> FieldMean(events, "teammateGap"),
         dataCompleteness |-> StintCompleteness(events),
         teamStintInfo |-> [eventRange |-> <<rounds[1], rounds[Len(rounds)]>>,
                            start_event |-> rounds[1],
                            end_event |-> rounds[Len(rounds)]]]

driver_stints(year_data, year, driver) ==
    LET ranges == stint_ranges(affiliation(year_data, driver))
    IN  [j \in DOMAIN ranges |->
            StintEntry(year_data, year, driver, ranges[j][1], ranges[j][2])]

season_stints(df, year) ==
    LET year_data == YearData(df, year)
        drivers == unique(Column(year_data, "BroadcastName"))
    IN  Concat([d \in DOMAIN drivers |-> driver_stints(year_data, year, drivers[d])])

segment_stints(df) ==
    Concat([y \in DOMAIN all_years(df) |-> season_stints(df, all_years(df)[y])])

----------------------------------------------------------------------------
(* dashboard.py: the timeline of the selected driver.  A panel is kept as *)
(* its year, whether it is the combined panel of several stints, and the  *)
(* positions of the vertical team-change lines of its plot.                *)

(* list.index: position of the first occurrence, counted from 0 *)
index(list, x) == (CHOOSE i \in DOMAIN list :
                      list[i] = x /\ \A j \in 1..(i - 1) : list[j] # x) - 1

(* lines 162-172: the rounds of the events of all stints of the year *)
all_events_data(year_data) ==
    Concat([i \in DOMAIN year_data |->
               [k \in DOMAIN year_data[i].events |-> year_data[i].events[k].round]])

(* lines 269-276 *)
stint_transitions(year_data, all_rounds) ==
    LET starts == [i \in DOMAIN year_data |-> year_data[i].teamStintInfo.start_event]
        kept == SelectSeq([i \in DOMAIN year_data |-> i],
                          LAMBDA i : /\ i > 1
                                     /\ starts[i] # ""
                                     /\ starts[i] \in Range(all_rounds))
    IN  [j \in DOMAIN kept |-> index(all_rounds, starts[kept[j]])]

(* lines 218-221 and 266-276 *)
create_combined_year_visualization(rounds, year_data) ==
    LET all_rounds == unique(rounds)
    IN  IF Len(year_data) > 1 THEN stint_transitions(year_data, all_rounds) ELSE <<>>

(* lines 86-202 *)
create_multi_team_year_panel(year, year_data) ==
    [year |-> year, combined |-> TRUE,
     transitions |-> IF all_events_data(year_data) # <<>>
                     THEN create_combined_year_visualization(
                              all_events_data(year_data), year_data)
                     ELSE <<>>]

(* lines 398-620: the panel of a year with one entry has no team-change line *)
create_year_panel(year) == [year |-> year, combined |-> FALSE, transitions |-> <<>>]

(* line 54: sort_values('year') sorts with the default kind, quicksort,    *)
(* which is not stable: the rows come out with the years ascending and the *)
(* rows of one year in any order                                           *)
sort_values(rows) ==
    LET n == Len(rows)
        orders == {o \in [1..n -> 1..n] :
                      /\ \A i, j \in 1..n : (i # j) => (o[i] # o[j])
                      /\ \A i \in 1..(n - 1) : rows[o[i]].year <= rows[o[i + 1]].year}
    IN  {[i \in 1..n |-> rows[o[i]]] : o \in orders}

(* lines 57-67: the sorted entries of the driver grouped by year *)
timeline_panels(driver_data) ==
    LET years == Ascending({driver_data[i].year : i \in DOMAIN driver_data})
    IN  [y \in DOMAIN years |->
            LET year_group == SelectSeq(driver_data, LAMBDA r : r.year = years[y])
            IN  IF Len(year_group) > 1
                THEN create_multi_team_year_panel(years[y], year_group)
                ELSE create_year_panel(years[y])]

(* lines 39-85: the panel lists create_timeline can return for the driver, *)
(* one for each order sort_values can give                                 *)
create_timeline(df, driver) ==
    {timeline_panels(driver_data) :
        driver_data \in sort_values(SelectSeq(df, LAMBDA r : r.driver = driver))}

(* line 22: sorted(df['driver'].unique().tolist()) *)
all_drivers(df) ==
    SelectSeq(<<"A", "B", "C">>, LAMBDA d : \E i \in DOMAIN df : df[i].driver = d)

----------------------------------------------------------------------------
(* Input tables.  Every row carries the columns process_qualifying_data    *)
(* reads; every driver has at most one row per event.                      *)

Row(y, e, d, t, p, q1, q2, q3) ==
    [Year |-> y, EventName |-> e, BroadcastName |-> d, TeamName |-> t,
     Position |-> p, Q1Seconds |-> q1, Q2Seconds |-> q2, Q3Seconds |-> q3]

Opt(S) == {NaN} \cup {Some(v) : v \in S}
Times == 1..MaxTime
Positions == 1..MaxPos

(* one event, two teammates, every mix of positions and segment times *)
TimeTables ==
    { << Row(2022, "R1", "A", "X", pa, q1, q2, q3),
         Row(2022, "R1", "B", "X", pb, NaN, r2, r3) >> :
        <<pa, pb, q1, q2, q3, r2, r3>> \in
            Opt(Positions) \X Opt(Positions) \X Opt(Times) \X Opt(Times)
            \X Opt(Times) \X Opt(Times) \X Opt(Times) }

(* up to MaxRows rows in any order over events, drivers and teams: team   *)
(* changes between events, teams of one, two and three drivers            *)
Pace(d) == CASE d = "A" -> 1 [] d = "B" -> 3 [] OTHER -> 4
TeamRows ==
    { Row(2022, e, d, t, NaN, NaN, NaN, Some(Pace(d))) :
        <<e, d, t>> \in Events \X Drivers \X Teams }
OneRowPerDriverEvent(df) ==
    \A i, j \in DOMAIN df :
        (i # j) => <<df[i].Year, df[i].EventName, df[i].BroadcastName>>
                   # <<df[j].Year, df[j].EventName, df[j].BroadcastName>>
TeamTables ==
    { df \in UNION { [1..n -> TeamRows] : n \in 1..MaxRows } :
        OneRowPerDriverEvent(df) }

(* two events met in the order R2, R1, of one season or of two; B on pole *)
(* in both, A with any position and time, a team of its own, no team      *)
(* name, or no row at all in the second event                              *)
SeasonTables ==
    { << Row(2022, "R2", "B", "X", Some(1), NaN, NaN, Some(b2)),
         Row(2022, "R2", "A", ta, p2, NaN, NaN, q2),
         Row(y, "R1", "B", "X", Some(1), NaN, NaN, Some(b1)) >> \o tl :
        <<b2, ta, p2, q2, y, b1>> \in
            Times \X (Teams \cup {NoTeam}) \X Opt(Positions) \X Opt(Times)
            \X {2022, 2023} \X Times,
        tl \in {<<>>} \cup
               { << Row(yy, "R1", "A", "X", p1, NaN, NaN, q1) >> :
                    <<yy, p1, q1>> \in {2022, 2023} \X Opt(Positions) \X Opt(Times) } }

(* three events in schedule order, B in team X at each, A in team X, in  *)
(* team Y or away at each: seasons of one, two and three stints           *)
StintRows(e, ta) ==
    << Row(2022, e, "B", "X", Some(1), NaN, NaN, Some(1)) >>
    \o (IF ta = NoTeam THEN <<>>
        ELSE << Row(2022, e, "A", ta, Some(2), NaN, NaN, Some(2)) >>)
StintTables ==
    { StintRows("R1", t1) \o StintRows("R2", t2) \o StintRows("R3", t3) :
        <<t1, t2, t3>> \in (Teams \cup {NoTeam}) \X (Teams \cup {NoTeam})
                           \X (Teams \cup {NoTeam}) }

Tables == TimeTables \cup TeamTables \cup SeasonTables \cup StintTables

(* lines 201-205 *)
required_columns ==
    << "DriverNumber", "BroadcastName", "TeamName", "Position",
       "Q1", "Q2", "Q3", "Year", "EventName", "WetSession",
       "Q1Seconds", "Q2Seconds", "Q3Seconds" >>

missing_columns_OnlyRead(cols) ==
    SelectSeq(required_columns,
              LAMBDA col : col \notin cols /\ col \in DOMAIN Row(0, "", "", "", NaN, NaN, NaN, NaN))

(* line 207 *)
missing_columns(cols) ==
    SelectSeq(required_columns, LAMBDA col : col \notin cols)

(* a table read from a file that lacks one column: its rows lack the field *)
WithoutColumn(df, col) ==
    [i \in DOMAIN df |-> [f \in (DOMAIN df[i]) \ {col} |-> df[i][f]]]
OneRowTables == { df \in TeamTables : Len(df) = 1 }

----------------------------------------------------------------------------
(* The run of process_qualifying_data *)

(* no F1DataFetcher is constructed in a run of the processing *)
NoFetcher ==
    /\ loggerDict = {}
    /\ mkdir_ok = TRUE
    /\ cache_ok = TRUE
    /\ reload = FALSE
    /\ fetch_years = <<>>
    /\ fetch_idx = 0
    /\ csv_files = <<>>
    /\ results = [success |-> <<>>, failed |-> <<>>]
    /\ attempt = 0
    /\ schedule_log = <<>>
    /\ schedule = NaN
    /\ event_idx = 0
    /\ yearly_data = <<>>
    /\ year_log = <<>>

Init ==
    /\ \/ /\ quali_data \in Tables
          /\ columns = Range(required_columns)
       \/ \E col \in Range(required_columns) :
          /\ quali_data \in { WithoutColumn(df, col) : df \in OneRowTables }
          /\ columns = Range(required_columns) \ {col}
    /\ pc = "start"
    /\ driver_team_mapping = <<>>
    /\ year_idx = 0
    /\ pending = {}
    /\ timeline_data = <<>>
    /\ prev_timeline = NaN
    /\ stint_data = NaN
    /\ panels = NaN
    /\ data_folder = NaN
    /\ output_file = NaN
    /\ output_before = NaN
    /\ reported = FALSE
    /\ NoFetcher

(* lines 207-209: the call raises when a required column is missing *)
CheckColumns ==
    /\ UNCHANGED <<pipeline_vars, fetch_vars>>
    /\ pc = "start"
    /\ pc' = IF missing_columns(columns) # <<>> THEN "raised" ELSE "mapping"
    /\ UNCHANGED <<quali_data, columns, driver_team_mapping, year_idx, pending,
                   timeline_data, prev_timeline, stint_data, panels>>

(* lines 212-218, then entry into the first season (lines 220-226) *)
BuildMapping ==
    /\ UNCHANGED <<pipeline_vars, fetch_vars>>
    /\ pc = "mapping"
    /\ driver_team_mapping' = FirstTeams(quali_data)
    /\ IF all_years(quali_data) = <<>>
       THEN /\ pc' = "finalize"
            /\ UNCHANGED <<year_idx, pending>>
       ELSE /\ pc' = "drivers"
            /\ year_idx' = 1
            /\ pending' = year_drivers(YearData(quali_data, all_years(quali_data)[1]))
    /\ UNCHANGED <<quali_data, columns, timeline_data, prev_timeline, stint_data, panels>>

(* lines 228-270: one iteration of "for driver in year_drivers".  The     *)
(* iteration order of the set year_drivers is not defined by the code:    *)
(* any driver not yet visited may come next.  After the last driver of a  *)
(* season the outer loop enters the next season or ends.                   *)
ProcessDriver ==
    /\ UNCHANGED <<pipeline_vars, fetch_vars>>
    /\ pc = "drivers"
    /\ \E driver \in pending :
        LET years == all_years(quali_data)
            year == years[year_idx]
            year_data == YearData(quali_data, year)
            key == <<year, driver>>
        IN  /\ timeline_data' =
                IF key \notin DOMAIN driver_team_mapping
                THEN timeline_data
                ELSE Append(timeline_data,
                            DriverLoopBody(year_data, year, driver,
                                           driver_team_mapping[key]))
            /\ IF pending # {driver}
               THEN /\ pending' = pending \ {driver}
                    /\ UNCHANGED <<pc, year_idx>>
               ELSE IF year_idx < Len(years)
               THEN /\ year_idx' = year_idx + 1
                    /\ pending' = year_drivers(YearData(quali_data, years[year_idx + 1]))
                    /\ UNCHANGED pc
               ELSE /\ pc' = "finalize"
                    /\ pending' = {}
                    /\ UNCHANGED year_idx
    /\ UNCHANGED <<quali_data, columns, driver_team_mapping, prev_timeline,
                   stint_data, panels>>

(* lines 273-288 *)
Finalize ==
    /\ UNCHANGED <<pipeline_vars, fetch_vars>>
    /\ pc = "finalize"
    /\ timeline_data' = [i \in DOMAIN timeline_data |-> FinalizeEntry(timeline_data[i])]
    /\ pc' = "done"
    /\ UNCHANGED <<quali_data, columns, driver_team_mapping, year_idx, pending,
                   prev_timeline, stint_data, panels>>

(* a second run of the processing on the same table, its first output kept *)
Rerun ==
    /\ UNCHANGED <<pipeline_vars, fetch_vars>>
    /\ pc = "done"
    /\ prev_timeline = NaN
    /\ prev_timeline' = Some(timeline_data)
    /\ pc' = "start"
    /\ driver_team_mapping' = <<>>
    /\ year_idx' = 0
    /\ pending' = {}
    /\ timeline_data' = <<>>
    /\ UNCHANGED <<quali_data, columns, stint_data, panels>>

(* spec 4.4: the finished timeline is split into team stints *)
SegmentStints ==
    /\ UNCHANGED <<pipeline_vars, fetch_vars>>
    /\ pc = "done"
    /\ stint_data' = Some(segment_stints(quali_data))
    /\ pc' = "segmented"
    /\ UNCHANGED <<quali_data, columns, driver_team_mapping, year_idx, pending,
                   timeline_data, prev_timeline, panels>>

(* dashboard.py lines 21-22 and 625: a driver of the stint file is        *)
(* selected and create_timeline draws the driver's panels                  *)
SelectDriver ==
    /\ UNCHANGED <<pipeline_vars, fetch_vars>>
    /\ pc \in {"segmented", "shown"}
    /\ stint_data[1] # <<>>
    /\ \E driver \in IF pc = "segmented"
                     THEN {all_drivers(stint_data[1])[1]}
                     ELSE Range(all_drivers(stint_data[1])) :
          \E shown \in create_timeline(stint_data[1], driver) :
              panels' = Some([driver |-> driver, years |-> shown])
    /\ pc' = "shown"
    /\ UNCHANGED <<quali_data, columns, driver_team_mapping, year_idx, pending,
                   timeline_data, prev_timeline, stint_data>>

(* one run of process_qualifying_data, its split into stints, the dashboard *)
Next ==
    \/ CheckColumns \/ BuildMapping \/ ProcessDriver \/ Finalize
    \/ SegmentStints \/ SelectDriver

Spec == Init /\ [][Next]_vars

(* two runs on the same table, to compare their outputs *)
NextRerun == CheckColumns \/ BuildMapping \/ ProcessDriver \/ Finalize \/ Rerun

SpecRerun == Init /\ [][NextRerun]_vars

----------------------------------------------------------------------------
(* The processing CLI: main, generate_dashboard_data, combine_csv_files   *)
(* and convert_time.  A CSV file is kept as whether pandas can read it,   *)
(* its columns and its rows; a duration cell is its text, "" when empty.  *)

(* the columns the collector writes (data_collection.py lines 198-204) *)
CsvColumns == Range(required_columns) \ {"Q1Seconds", "Q2Seconds", "Q3Seconds"}
ValueColumns ==
    {"Year", "EventName", "BroadcastName", "TeamName", "Position", "Q1", "Q2", "Q3"}

CsvRow(e, d, p, q3) ==
    [Year |-> 2022, EventName |-> e, BroadcastName |-> d, TeamName |-> "X",
     Position |-> p, Q1 |-> "", Q2 |-> "", Q3 |-> q3]

(* pd.to_timedelta of a cell: an empty cell is NaT, a malformed text raises *)
WellFormed(text) == text \in {"", "0 days 00:00:01", "0 days 00:00:02"}
total_seconds(text) ==
    CASE text = "0 days 00:00:01" -> Some(1)
      [] text = "0 days 00:00:02" -> Some(2)
      [] OTHER -> NaN

CsvFile(readable, cols, rows) == [readable |-> readable, columns |-> cols, rows |-> rows]
CsvRows ==
    { << CsvRow("R1", "B", Some(1), "0 days 00:00:01") >> } \cup
    { << CsvRow("R1", "B", Some(1), "0 days 00:00:01"),
         CsvRow("R1", "A", Some(2), q) >> :
        q \in {"", "0 days 00:00:01", "0 days 00:00:02", "1:2x"} }
CsvFiles ==
    { CsvFile(FALSE, {}, <<>>) } \cup
    { CsvFile(TRUE, CsvColumns, rows) : rows \in CsvRows } \cup
    { CsvFile(TRUE, CsvColumns \ {col},
              WithoutColumn(<< CsvRow("R2", "B", Some(1), "0 days 00:00:02") >>, col)) :
        col \in {"Q2", "TeamName", "WetSession"} }
Folders ==
    {NaN} \cup { Some(files) : files \in UNION { [1..n -> CsvFiles] : n \in 0..MaxFiles } }

(* pd.concat: the columns of all tables, a cell of a column a table lacks *)
(* is empty                                                                *)
EmptyCell(col) ==
    IF col = "Position" THEN NaN ELSE IF col = "TeamName" THEN NoTeam ELSE ""
concat(all_dfs) ==
    LET cols == UNION {all_dfs[i].columns : i \in DOMAIN all_dfs}
        fill(row) == [col \in cols \cap ValueColumns |->
                         IF col \in DOMAIN row THEN row[col] ELSE EmptyCell(col)]
    IN  [columns |-> cols,
         rows |-> Concat([i \in DOMAIN all_dfs |->
                             [k \in DOMAIN all_dfs[i].rows |-> fill(all_dfs[i].rows[k])]])]

(* lines 25-43: None (NaN) when no file was read *)
combine_csv_files(folder) ==
    LET files == IF folder = NaN THEN <<>> ELSE folder[1]
        all_dfs == SelectSeq(files, LAMBDA file : file.readable)
    IN  IF all_dfs # <<>> THEN Some(concat(all_dfs)) ELSE NaN

(* variant: a text that is no duration becomes an empty value *)
convert_time_raises_Coerce(df) == ~ ({"Q1", "Q2", "Q3"} \subseteq df.columns)

(* lines 56-58: KeyError on a missing Q column, ValueError on a malformed text *)
convert_time_raises(df) ==
    \/ ~ ({"Q1", "Q2", "Q3"} \subseteq df.columns)
    \/ \E k \in DOMAIN df.rows : \E col \in {"Q1", "Q2", "Q3"} :
          ~ WellFormed(df.rows[k][col])

(* lines 56-64 *)
convert_time(df) ==
    [columns |-> df.columns \cup {"Q1Seconds", "Q2Seconds", "Q3Seconds"},
     rows |-> [k \in DOMAIN df.rows |->
                 [col \in DOMAIN df.rows[k] \cup {"Q1Seconds", "Q2Seconds", "Q3Seconds"} |->
                     CASE col = "Q1Seconds" -> total_seconds(df.rows[k].Q1)
                       [] col = "Q2Seconds" -> total_seconds(df.rows[k].Q2)
                       [] col = "Q3Seconds" -> total_seconds(df.rows[k].Q3)
                       [] OTHER -> df.rows[k][col]]]]

(* the content of an output file left by an earlier run *)
OlderTimeline == << [year |-> 1950, driver |-> "F", team |-> "Z"] >>

InitCLI ==
    /\ data_folder \in Folders
    /\ output_before \in {NaN, Some(OlderTimeline)}
    /\ output_file = output_before
    /\ reported = FALSE
    /\ pc = "main"
    /\ quali_data = <<>>
    /\ columns = {}
    /\ driver_team_mapping = <<>>
    /\ year_idx = 0
    /\ pending = {}
    /\ timeline_data = <<>>
    /\ prev_timeline = NaN
    /\ stint_data = NaN
    /\ panels = NaN
    /\ NoFetcher

(* lines 299-305: combine_csv_files, the early return on None, convert_time *)
ReadAndConvert ==
    /\ pc = "main"
    /\ LET combined == combine_csv_files(data_folder)
       IN  IF combined = NaN
           THEN /\ pc' = "nodata"
                /\ UNCHANGED <<quali_data, columns>>
           ELSE IF convert_time_raises(combined[1])
           THEN /\ pc' = "raised"
                /\ quali_data' = combined[1].rows
                /\ columns' = combined[1].columns
           ELSE /\ pc' = "start"
                /\ quali_data' = convert_time(combined[1]).rows
                /\ columns' = convert_time(combined[1]).columns
    /\ UNCHANGED <<driver_team_mapping, year_idx, pending, timeline_data,
                   prev_timeline, stint_data, panels, pipeline_vars, fetch_vars>>

(* lines 308-310: the timeline is written to the output path *)
WriteOutput ==
    /\ pc = "done"
    /\ output_file' = Some(timeline_data)
    /\ pc' = "written"
    /\ UNCHANGED <<quali_data, columns, driver_team_mapping, year_idx, pending,
                   timeline_data, prev_timeline, stint_data, panels,
                   data_folder, output_before, reported, fetch_vars>>

(* lines 321-323: generate_dashboard_data has returned, main prints *)
ReportSuccess ==
    /\ pc \in {"written", "nodata"}
    /\ reported' = TRUE
    /\ pc' = "exit"
    /\ UNCHANGED <<quali_data, columns, driver_team_mapping, year_idx, pending,
                   timeline_data, prev_timeline, stint_data, panels,
                   data_folder, output_file, output_before, fetch_vars>>

NextCLI ==
    \/ ReadAndConvert
    \/ CheckColumns \/ BuildMapping \/ ProcessDriver \/ Finalize
    \/ WriteOutput \/ ReportSuccess

SpecCLI == InitCLI /\ [][NextCLI]_vars

----------------------------------------------------------------------------
(* The collector: F1DataFetcher of src/data_collection.py.  What the       *)
(* upstream service and the file system answer is chosen freely at each    *)
(* call: a schedule request succeeds or raises, a session load succeeds or *)
(* raises, to_csv writes the file or raises, before or while writing.      *)

MaxYears == 2

(* line 130: the defaults of _get_schedule, the only values it is called with *)
max_retries == 3
delay == 5

Seasons == {2020, 2021}

(* the schedules the upstream can answer: no event left after the filter of *)
(* lines 148-150, or two events                                             *)
Schedules == {<<>>, <<"R1", "R2">>}

(* the content of a year's CSV written by an earlier run *)
OlderCsv == <<"R0">>

Requests == UNION {[1..n -> Seasons] : n \in 0..MaxYears}

(* line 99 *)
skip_year_WhenFileExists(exists, reload_flag) == exists
skip_year(exists, reload_flag) == exists /\ ~reload_flag

(* line 155 *)
should_retry_UpToMaxRetries(n) == n < max_retries
should_retry(n) == n < max_retries - 1

(* line 113: a list is true when it is not empty *)
truthy_SeveralEvents(data) == Len(data) >= 2
truthy(data) == data # <<>>

(* lines 122-124 *)
on_exception_Swallow(res, year) == res
on_exception(res, year) == [res EXCEPT !.failed = Append(@, year)]

LogEntry(op, secs) == [op |-> op, secs |-> secs]

InitFetch ==
    /\ loggerDict \in {{}, {"fastf1"}, {"data_collection"}}
    /\ mkdir_ok \in BOOLEAN
    /\ cache_ok \in BOOLEAN
    /\ reload \in BOOLEAN
    /\ fetch_years \in Requests
    /\ csv_files \in [Seasons -> {NaN, Some(OlderCsv)}]
    /\ fetch_idx = 0
    /\ results = [success |-> <<>>, failed |-> <<>>]
    /\ attempt = 0
    /\ schedule_log = <<>>
    /\ schedule = NaN
    /\ event_idx = 0
    /\ yearly_data = <<>>
    /\ year_log = <<>>
    /\ pc = "new"
    /\ quali_data = <<>>
    /\ columns = {}
    /\ driver_team_mapping = <<>>
    /\ year_idx = 0
    /\ pending = {}
    /\ timeline_data = <<>>
    /\ prev_timeline = NaN
    /\ stint_data = NaN
    /\ panels = NaN
    /\ data_folder = NaN
    /\ output_file = NaN
    /\ output_before = NaN
    /\ reported = FALSE

processing_vars == <<quali_data, columns, driver_team_mapping, year_idx, pending,
                     timeline_data, prev_timeline, stint_data, panels, pipeline_vars>>

environment_vars == <<mkdir_ok, cache_ok, reload, fetch_years>>

(* lines 15-40 and 42-79: __init__ with _setup_logging and _setup_fastf1.  *)
(* mkdir raises OSError when a directory cannot be created; line 64 reads  *)
(* logging.Error, which the logging module does not have, once for every   *)
(* registered logger; line 67 registers the logger of the module itself;   *)
(* a failing enable_cache ends in sys.exit(1).                             *)
Construct ==
    /\ pc = "new"
    /\ pc' = IF ~mkdir_ok THEN "raised"
             ELSE IF loggerDict # {} THEN "raised"
             ELSE IF ~cache_ok THEN "sysexit"
             ELSE "ready"
    /\ loggerDict' = IF mkdir_ok /\ loggerDict = {}
                     THEN {"data_collection"}
                     ELSE loggerDict
    /\ UNCHANGED <<processing_vars, mkdir_ok, cache_ok, reload, fetch_years,
                   fetch_idx, csv_files, results, attempt, schedule_log, schedule,
                   event_idx, yearly_data, year_log>>

(* line 91: fetch_qualifying_data is called *)
BeginFetch ==
    /\ pc = "ready"
    /\ results' = [success |-> <<>>, failed |-> <<>>]
    /\ fetch_idx' = 1
    /\ pc' = "year"
    /\ UNCHANGED <<processing_vars, environment_vars, loggerDict, csv_files, attempt,
                   schedule_log, schedule, event_idx, yearly_data, year_log>>

(* what year_log keeps of the year at a position of fetch_years *)
YearEntry(year, skipped) ==
    [year |-> year,
     existed |-> csv_files[year] # NaN,
     file_before |-> csv_files[year],
     success_before |-> Len(results.success),
     failed_before |-> Len(results.failed),
     skipped |-> skipped,
     scheduled |-> FALSE,
     tried |-> <<>>,
     loaded |-> <<>>,
     written |-> FALSE,
     csv_error |-> FALSE]

(* lines 94-102: the next year of the loop; the year is skipped when its   *)
(* file exists and reload is off, else _get_schedule is entered            *)
StartYear ==
    /\ pc = "year"
    /\ fetch_idx <= Len(fetch_years)
    /\ LET year == fetch_years[fetch_idx]
       IN  IF skip_year(csv_files[year] # NaN, reload)
           THEN /\ results' = [results EXCEPT !.success = Append(@, year)]
                /\ year_log' = Append(year_log, YearEntry(year, TRUE))
                /\ fetch_idx' = fetch_idx + 1
                /\ pc' = "year"
           ELSE /\ year_log' = Append(year_log, YearEntry(year, FALSE))
                /\ pc' = "schedule"
                /\ UNCHANGED <<results, fetch_idx>>
    /\ attempt' = 0
    /\ schedule_log' = <<>>
    /\ schedule' = NaN
    /\ event_idx' = 0
    /\ yearly_data' = <<>>
    /\ UNCHANGED <<processing_vars, environment_vars, loggerDict, csv_files>>

(* lines 143-163: one round of the loop of _get_schedule, and lines        *)
(* 106-108 when it returns None                                            *)
GetSchedule ==
    /\ pc = "schedule"
    /\ attempt < max_retries
    /\ \/ \E answer \in Schedules :
          /\ schedule_log' = Append(schedule_log, LogEntry("ok", 0))
          /\ schedule' = Some(answer)
          /\ year_log' = [year_log EXCEPT ![fetch_idx].scheduled = TRUE]
          /\ event_idx' = 1
          /\ pc' = "events"
          /\ UNCHANGED <<attempt, results, fetch_idx>>
       \/ LET retry == should_retry(attempt)
              over == ~retry \/ attempt + 1 >= max_retries
          IN  /\ schedule_log' =
                    IF retry
                    THEN schedule_log \o <<LogEntry("fail", 0), LogEntry("sleep", delay)>>
                    ELSE Append(schedule_log, LogEntry("fail", 0))
              /\ attempt' = IF retry THEN attempt + 1 ELSE attempt
              /\ IF over
                 THEN /\ results' = [results EXCEPT
                                        !.failed = Append(@, fetch_years[fetch_idx])]
                      /\ fetch_idx' = fetch_idx + 1
                      /\ pc' = "year"
                 ELSE UNCHANGED <<results, fetch_idx, pc>>
              /\ UNCHANGED <<schedule, year_log, event_idx>>
    /\ UNCHANGED <<processing_vars, environment_vars, loggerDict, csv_files, yearly_data>>

(* lines 179-209: one event of _process_year_events; a session that fails *)
(* to load is logged and the loop goes on                                  *)
LoadSession ==
    /\ pc = "events"
    /\ event_idx <= Len(schedule[1])
    /\ LET event == schedule[1][event_idx]
       IN  /\ \/ yearly_data' = Append(yearly_data, event)
              \/ UNCHANGED yearly_data
           /\ year_log' = [year_log EXCEPT ![fetch_idx].tried = Append(@, event)]
    /\ event_idx' = event_idx + 1
    /\ UNCHANGED <<processing_vars, environment_vars, loggerDict, csv_files, pc, results,
                   fetch_idx, attempt, schedule_log, schedule>>

(* lines 113-124: the year is saved when some event loaded; an exception  *)
(* of to_csv is caught by the handler of line 122.  to_csv raises either   *)
(* before it opens the file, which then stays as it was, or after, which   *)
(* leaves a file with the rows written until then, possibly none.          *)
SaveYear ==
    /\ pc = "events"
    /\ event_idx > Len(schedule[1])
    /\ LET year == fetch_years[fetch_idx]
       IN  IF truthy(yearly_data)
           THEN \/ /\ csv_files' = [csv_files EXCEPT ![year] = Some(yearly_data)]
                   /\ results' = [results EXCEPT !.success = Append(@, year)]
                   /\ year_log' = [year_log EXCEPT ![fetch_idx].loaded = yearly_data,
                                                   ![fetch_idx].written = TRUE]
                \/ /\ results' = on_exception(results, year)
                   /\ year_log' = [year_log EXCEPT ![fetch_idx].loaded = yearly_data,
                                                   ![fetch_idx].csv_error = TRUE]
                   /\ \/ UNCHANGED csv_files
                      \/ \E k \in 0..(Len(yearly_data) - 1) :
                            csv_files' = [csv_files EXCEPT
                                             ![year] = Some(SubSeq(yearly_data, 1, k))]
           ELSE /\ results' = [results EXCEPT !.failed = Append(@, year)]
                /\ year_log' = [year_log EXCEPT ![fetch_idx].loaded = yearly_data]
                /\ UNCHANGED csv_files
    /\ fetch_idx' = fetch_idx + 1
    /\ pc' = "year"
    /\ UNCHANGED <<processing_vars, environment_vars, loggerDict, attempt, schedule_log,
                   schedule, event_idx, yearly_data>>

(* line 128 *)
ReturnResults ==
    /\ pc = "year"
    /\ fetch_idx > Len(fetch_years)
    /\ pc' = "returned"
    /\ UNCHANGED <<processing_vars, fetch_vars>>

NextFetch ==
    \/ Construct \/ BeginFetch \/ StartYear \/ GetSchedule
    \/ LoadSession \/ SaveYear \/ ReturnResults

SpecFetch == InitFetch /\ [][NextFetch]_vars

----------------------------------------------------------------------------
(* Vocabulary of the properties: the input rows behind an event summary *)

Done == pc = "done"
Building == pc \in {"drivers", "finalize"}

(* rows of the season and event behind summary k of entry i *)
RowsAt(i, k) ==
    EventData(YearData(quali_data, timeline_data[i].year),
              timeline_data[i].events[k].round)
(* the row of entry i's driver at that event, <<>> when the driver has none *)
OwnRows(i, k) == RowsOfDriver(RowsAt(i, k), timeline_data[i].driver)
(* distinct drivers recorded with team at an event *)
Members(event_data, team) ==
    {event_data[n].BroadcastName :
        n \in {m \in DOMAIN event_data : event_data[m].TeamName = team}}
Summaries(i) == timeline_data[i].events
WithTeammate(evs) == {k \in DOMAIN evs : evs[k].hasTeammateData}
MeanOrNaN(values) == IF values = <<>> THEN NaN ELSE Some(Mean(values))

----------------------------------------------------------------------------
(* C1: in every event summary of every entry, position 1 implies a gap to *)
(* pole of exactly 0, whatever the driver's and the pole's times are.      *)
C1_PoleGapZero ==
    \A i \in DOMAIN timeline_data : \A k \in DOMAIN Summaries(i) :
        (Summaries(i)[k].position = Some(1)) => (Summaries(i)[k].gapToPole = Some(0))

(* a returned summary at position 1 of a driver who set no time at all *)
C1_Witness ==
    /\ Done
    /\ \E i \in DOMAIN timeline_data : \E k \in DOMAIN Summaries(i) :
        /\ Summaries(i)[k].position = Some(1)
        /\ Summaries(i)[k].gapToPole = Some(0)
        /\ isna(get_best_time(OwnRows(i, k)[1]))

(* C2: the pole time behind an event's gaps is the representative best    *)
(* time (Q3, else Q2, else Q1) of the competitor at position 1, null only *)
(* when there is no such competitor or that competitor has no time.        *)
ClaimedPoleTime(event_data) ==
    LET pole_data == SelectSeq(event_data, LAMBDA r : r.Position = Some(1))
    IN  IF pole_data # <<>> THEN get_best_time(pole_data[1]) ELSE NaN
C2_PoleTimeIsBestTime ==
    Done =>
    \A i \in DOMAIN timeline_data : \A k \in DOMAIN Summaries(i) :
        (OwnRows(i, k) # <<>>) =>
            Summaries(i)[k].gapToPole =
                calculate_gap_to_pole(OwnRows(i, k)[1].Position,
                                      get_best_time(OwnRows(i, k)[1]),
                                      ClaimedPoleTime(RowsAt(i, k)))

(* C3: for a team of exactly two drivers A, B at an event, the teammate   *)
(* gaps are opposite and hasTeammateData is true for both iff both have a *)
(* best time, never for one of them only.  Stated for drivers whose       *)
(* season team has a name.                                                 *)
C3_TwoDriverTeamSymmetric ==
    Done =>
    \A i, j \in DOMAIN timeline_data : \A k \in DOMAIN Summaries(i) :
        LET a == timeline_data[i].driver
            b == timeline_data[j].driver
            ra == OwnRows(i, k)
            rb == RowsOfDriver(RowsAt(i, k), b)
        IN  ( /\ timeline_data[i].year = timeline_data[j].year
              /\ a # b
              /\ ra # <<>>
              /\ rb # <<>>
              /\ ra[1].TeamName # NoTeam
              /\ timeline_data[i].team # NoTeam
              /\ timeline_data[j].team # NoTeam
              /\ Members(RowsAt(i, k), ra[1].TeamName) = {a, b} )
            =>
            \A l \in DOMAIN Summaries(j) :
                (Summaries(j)[l].round = Summaries(i)[k].round) =>
                LET sa == Summaries(i)[k]
                    sb == Summaries(j)[l]
                    both == notna(get_best_time(ra[1])) /\ notna(get_best_time(rb[1]))
                IN  /\ sa.hasTeammateData = both
                    /\ sb.hasTeammateData = both
                    /\ isna(sa.teammateGap) = isna(sb.teammateGap)
                    /\ notna(sa.teammateGap) /\ notna(sb.teammateGap)
                          => sa.teammateGap[1] = 0 - sb.teammateGap[1]

(* C4: the teammate gap of a driver present at an event is computed over  *)
(* the drivers recorded with the team the driver's own row names at that  *)
(* event.  Stated for drivers whose season team has a name.               *)
C4_GapOverTeamAtEvent ==
    Done =>
    \A i \in DOMAIN timeline_data : \A k \in DOMAIN Summaries(i) :
        (OwnRows(i, k) # <<>> /\ timeline_data[i].team # NoTeam) =>
            Summaries(i)[k].teammateGap =
                gaps_get(calculate_teammate_gaps(
                             TeamData(RowsAt(i, k), OwnRows(i, k)[1].TeamName)),
                         timeline_data[i].driver)

(* C5: when the distinct drivers recorded for a team at an event number   *)
(* 0, 1 or 3 and more, every member has a null teammateGap and            *)
(* hasTeammateData false.  The team is the one the driver's row names at  *)
(* the event, and also the team of the driver's entry.                    *)
C5_NoPairOutsideTwo ==
    \A i \in DOMAIN timeline_data : \A k \in DOMAIN Summaries(i) :
        LET own == OwnRows(i, k)
            size == IF own = <<>> THEN 0
                    ELSE Cardinality(Members(RowsAt(i, k), own[1].TeamName))
            entry_size == Cardinality(Members(RowsAt(i, k), timeline_data[i].team))
        IN  (size # 2 \/ entry_size # 2) =>
                /\ isna(Summaries(i)[k].teammateGap)
                /\ Summaries(i)[k].hasTeammateData = FALSE

(* a returned summary of a member of a three-driver team, all with times *)
C5_Witness ==
    /\ Done
    /\ \E i \in DOMAIN timeline_data : \E k \in DOMAIN Summaries(i) :
        /\ OwnRows(i, k) # <<>>
        /\ Cardinality(Members(RowsAt(i, k), OwnRows(i, k)[1].TeamName)) = 3
        /\ timeline_data[i].team = OwnRows(i, k)[1].TeamName
        /\ notna(get_best_time(OwnRows(i, k)[1]))
        /\ Summaries(i)[k].hasTeammateData = FALSE

(* C6: dataCompleteness of a returned entry is the number of its events   *)
(* with a valid teammate comparison over the number of events of the      *)
(* season, events the driver missed included; it lies in [0,1]; it is 0   *)
(* for an entry with no event.                                             *)
C6_Completeness ==
    /\ FinalizeEntry(create_driver_entry(2022, "A", "X")).dataCompleteness.sum = 0
    /\ Done =>
        \A i \in DOMAIN timeline_data :
            LET c == timeline_data[i].dataCompleteness
                season == YearData(quali_data, timeline_data[i].year)
            IN  /\ c.sum = Cardinality(WithTeammate(Summaries(i)))
                /\ c.n = Cardinality({season[m].EventName : m \in DOMAIN season})
                /\ 0 <= c.sum
                /\ c.sum <= c.n

(* a returned entry with one compared event and one event the driver missed *)
C6_Witness ==
    /\ Done
    /\ \E i \in DOMAIN timeline_data :
        /\ timeline_data[i].dataCompleteness = [sum |-> 1, n |-> 2]
        /\ \E k \in DOMAIN Summaries(i) : OwnRows(i, k) = <<>>

(* C7 as stated: an event counts toward completeness only if the driver   *)
(* has both a position and a valid teammate comparison there.              *)
C7_CountsNeedPosition ==
    Done =>
    \A i \in DOMAIN timeline_data :
        timeline_data[i].dataCompleteness.sum =
            Cardinality({k \in WithTeammate(Summaries(i)) :
                            notna(Summaries(i)[k].position)})

(* C7 amended: an event counts toward completeness if and only if the     *)
(* driver has a valid teammate comparison there, with or without a        *)
(* position: the counter of an entry under construction is the number of  *)
(* its summaries with a teammate gap, those with a null position included. *)
C7_CountsEveryComparison ==
    Building =>
    \A i \in DOMAIN timeline_data :
        timeline_data[i].completeDataCount =
            Len(SelectSeq(Summaries(i), LAMBDA ev : notna(ev.teammateGap)))

(* an entry under construction counting an event with a teammate gap and *)
(* no position                                                             *)
C7_Witness ==
    /\ Building
    /\ \E i \in DOMAIN timeline_data :
        /\ timeline_data[i].completeDataCount = 1
        /\ \A k \in DOMAIN Summaries(i) :
              Summaries(i)[k].hasTeammateData => isna(Summaries(i)[k].position)

(* C8: each of the three averages of a returned entry is the sum of the   *)
(* non-null per-event values of that entry over their count, and null     *)
(* (never 0) when there is no such value.                                  *)
C8_AveragesOverNonNull ==
    Done =>
    \A i \in DOMAIN timeline_data :
        LET evs == Summaries(i)
            e == timeline_data[i]
        IN  /\ e.avgQualifyingPosition =
                  MeanOrNaN(Valid([k \in DOMAIN evs |-> evs[k].position]))
            /\ e.avgGapToPole =
                  MeanOrNaN(Valid([k \in DOMAIN evs |-> evs[k].gapToPole]))
            /\ e.avgTeammateGap =
                  MeanOrNaN(Valid([k \in DOMAIN evs |-> evs[k].teammateGap]))

(* a returned entry averaging two positions, one gap to pole (the other   *)
(* is null) and no teammate gap                                            *)
C8_Witness ==
    /\ Done
    /\ \E i \in DOMAIN timeline_data :
        /\ timeline_data[i].avgQualifyingPosition = Some([sum |-> 4, n |-> 2])
        /\ notna(timeline_data[i].avgGapToPole)
        /\ timeline_data[i].avgGapToPole[1].n = 1
        /\ timeline_data[i].avgGapToPole[1].sum # 0
        /\ isna(timeline_data[i].avgTeammateGap)

(* C9: every entry of a season has one summary per distinct event of the  *)
(* season, in the order the events are first met in the input rows, the   *)
(* same for every driver of the season.                                    *)
FirstRowOf(season, event_name) ==
    CHOOSE m \in DOMAIN season :
        /\ season[m].EventName = event_name
        /\ \A n \in 1..(m - 1) : season[n].EventName # event_name
C9_FirstEncounterOrder ==
    \A i \in DOMAIN timeline_data :
        LET season == YearData(quali_data, timeline_data[i].year)
            evs == Summaries(i)
        IN  /\ {evs[k].round : k \in DOMAIN evs}
                  = {season[m].EventName : m \in DOMAIN season}
            /\ \A k, l \in DOMAIN evs :
                  (k < l) => FirstRowOf(season, evs[k].round)
                             < FirstRowOf(season, evs[l].round)

(* a returned entry with the rounds R2, R1 in that order, of a driver     *)
(* whose own first row is at R1                                            *)
C9_Witness ==
    /\ Done
    /\ \E i \in DOMAIN timeline_data :
        /\ Len(Summaries(i)) = 2
        /\ Summaries(i)[1].round = "R2"
        /\ Summaries(i)[2].round = "R1"
        /\ OwnRows(i, 1) = <<>>
        /\ OwnRows(i, 2) # <<>>

(* C10: a second run of the processing on the same table returns the same *)
(* entries in the same order.                                              *)
C10_SameOutputOnRerun ==
    (Done /\ notna(prev_timeline)) => (prev_timeline = Some(timeline_data))

(* C14: the gap to pole of a driver present at an event is null when the  *)
(* position is null (even with both times present); otherwise 0 at        *)
(* position 1; otherwise null when the best time or the pole time is      *)
(* null; otherwise best time minus pole time, in this order of priority.  *)
C14_GapToPoleCases ==
    \A i \in DOMAIN timeline_data : \A k \in DOMAIN Summaries(i) :
        (OwnRows(i, k) # <<>>) =>
        LET position == OwnRows(i, k)[1].Position
            best_time == get_best_time(OwnRows(i, k)[1])
            pole_time == PoleTime(RowsAt(i, k))
            gap == Summaries(i)[k].gapToPole
        IN  /\ isna(position) => isna(gap)
            /\ position = Some(1) => gap = Some(0)
            /\ (notna(position) /\ position # Some(1)
                  /\ (isna(best_time) \/ isna(pole_time))) => isna(gap)
            /\ (notna(position) /\ position # Some(1)
                  /\ notna(best_time) /\ notna(pole_time))
                  => gap = Some(best_time[1] - pole_time[1])

(* a returned summary with a null position and a null gap, of a driver    *)
(* with a best time at an event with a pole time                           *)
C14_Witness ==
    /\ Done
    /\ \E i \in DOMAIN timeline_data : \E k \in DOMAIN Summaries(i) :
        /\ OwnRows(i, k) # <<>>
        /\ isna(OwnRows(i, k)[1].Position)
        /\ notna(get_best_time(OwnRows(i, k)[1]))
        /\ notna(PoleTime(RowsAt(i, k)))
        /\ isna(Summaries(i)[k].gapToPole)

(* C15: at an event where every competitor's segment times are all null, *)
(* the pole time is null and every driver's gapToPole is null, except     *)
(* that a driver recorded at position 1 has gapToPole 0.                   *)
NoTimeAt(event_data) ==
    \A m \in DOMAIN event_data :
        /\ isna(event_data[m].Q1Seconds)
        /\ isna(event_data[m].Q2Seconds)
        /\ isna(event_data[m].Q3Seconds)
C15_EventWithoutTimes ==
    \A i \in DOMAIN timeline_data : \A k \in DOMAIN Summaries(i) :
        (OwnRows(i, k) # <<>> /\ NoTimeAt(RowsAt(i, k))) =>
            /\ isna(PoleTime(RowsAt(i, k)))
            /\ Summaries(i)[k].gapToPole =
                  IF OwnRows(i, k)[1].Position = Some(1) THEN Some(0) ELSE NaN

(* returned summaries of an event without times: one driver at position 1 *)
(* with gap 0, another at a later position with a null gap                 *)
C15_Witness ==
    /\ Done
    /\ \E i, j \in DOMAIN timeline_data : \E k \in DOMAIN Summaries(i) :
        /\ i # j
        /\ timeline_data[i].year = timeline_data[j].year
        /\ k \in DOMAIN Summaries(j)
        /\ NoTimeAt(RowsAt(i, k))
        /\ Summaries(i)[k].position = Some(1)
        /\ Summaries(i)[k].gapToPole = Some(0)
        /\ Summaries(j)[k].position = Some(2)
        /\ isna(Summaries(j)[k].gapToPole)

(* C16: the best time of a record is its Q3 time if present, else its Q2  *)
(* time, else its Q1 time, else null, never the smallest of them; seen in *)
(* the teammate gap of a two-driver team, which is the difference of the  *)
(* two best times and is null when one of them is null.                    *)
LatestSegment(row) ==
    LET segs == <<row.Q1Seconds, row.Q2Seconds, row.Q3Seconds>>
        set == {n \in 1..3 : notna(segs[n])}
    IN  IF set = {} THEN NaN
        ELSE segs[CHOOSE n \in set : \A m \in set : m <= n]
C16_BestTimeIsLatestSegment ==
    \A i \in DOMAIN timeline_data : \A k \in DOMAIN Summaries(i) :
        LET own == OwnRows(i, k)
            team == timeline_data[i].team
            mates == Members(RowsAt(i, k), team) \ {timeline_data[i].driver}
        IN  ( /\ own # <<>>
              /\ team # NoTeam
              /\ own[1].TeamName = team
              /\ Cardinality(mates) = 1 )
            =>
            LET mine == LatestSegment(own[1])
                other == LatestSegment(
                             RowsOfDriver(RowsAt(i, k), CHOOSE d \in mates : TRUE)[1])
            IN  Summaries(i)[k].teammateGap =
                    IF notna(mine) /\ notna(other)
                    THEN Some(mine[1] - other[1])
                    ELSE NaN

(* a returned teammate gap of a driver whose Q3 time is slower than the   *)
(* Q2 time, against a teammate with a Q2 time only                         *)
C16_Witness ==
    /\ Done
    /\ \E i \in DOMAIN timeline_data : \E k \in DOMAIN Summaries(i) :
        /\ OwnRows(i, k) # <<>>
        /\ OwnRows(i, k)[1].Q3Seconds = Some(2)
        /\ OwnRows(i, k)[1].Q2Seconds = Some(1)
        /\ \E m \in DOMAIN RowsAt(i, k) :
              /\ RowsAt(i, k)[m].BroadcastName # timeline_data[i].driver
              /\ isna(RowsAt(i, k)[m].Q3Seconds)
              /\ RowsAt(i, k)[m].Q2Seconds = Some(1)
        /\ Summaries(i)[k].teammateGap = Some(1)

(* C17: for an event of the season in which the driver has no row, the    *)
(* summary carries the round label with position, gapToPole and           *)
(* teammateGap null and hasTeammateData false; the event adds nothing to  *)
(* the gap-to-pole values, the teammate-gap values or the completeness    *)
(* count, and still counts as one of the entry's total events.             *)
AttendedWith(i, field) ==
    {k \in DOMAIN Summaries(i) : OwnRows(i, k) # <<>> /\ notna(Summaries(i)[k][field])}
C17_MissedEvent ==
    /\ \A i \in DOMAIN timeline_data : \A k \in DOMAIN Summaries(i) :
          (OwnRows(i, k) = <<>>) =>
              /\ isna(Summaries(i)[k].position)
              /\ isna(Summaries(i)[k].gapToPole)
              /\ isna(Summaries(i)[k].teammateGap)
              /\ Summaries(i)[k].hasTeammateData = FALSE
    /\ Building =>
          \A i \in DOMAIN timeline_data :
              /\ Len(timeline_data[i].gapToPole_values)
                    = Cardinality(AttendedWith(i, "gapToPole"))
              /\ Len(timeline_data[i].teammateGap_values)
                    = Cardinality(AttendedWith(i, "teammateGap"))
              /\ timeline_data[i].completeDataCount
                    = Cardinality(AttendedWith(i, "teammateGap"))
              /\ timeline_data[i].totalEvents = Len(Summaries(i))
              /\ Len(timeline_data[i].positions) = Len(Summaries(i))

(* an entry under construction with a missed event after an attended one  *)
(* that gave a gap to pole and a teammate gap                              *)
C17_Witness ==
    /\ Building
    /\ \E i \in DOMAIN timeline_data :
        /\ timeline_data[i].totalEvents = 2
        /\ OwnRows(i, 1) # <<>>
        /\ OwnRows(i, 2) = <<>>
        /\ Summaries(i)[2].round = "R1"
        /\ Len(timeline_data[i].gapToPole_values) = 1
        /\ timeline_data[i].completeDataCount = 1

(* C18: the returned list holds exactly one entry for every (year,        *)
(* driver) pair with at least one input row, and the entry's team is the  *)
(* team of the first row of that driver in that year.                      *)
DriverSeasons == {<<quali_data[m].Year, quali_data[m].BroadcastName>> : m \in DOMAIN quali_data}
EntriesOf(pair) ==
    {i \in DOMAIN timeline_data :
        <<timeline_data[i].year, timeline_data[i].driver>> = pair}
C18_OneEntryPerDriverSeason ==
    Done =>
    /\ Len(timeline_data) = Cardinality(DriverSeasons)
    /\ \A pair \in DriverSeasons :
        /\ Cardinality(EntriesOf(pair)) = 1
        /\ \A i \in EntriesOf(pair) :
              \E m \in DOMAIN quali_data :
                  /\ <<quali_data[m].Year, quali_data[m].BroadcastName>> = pair
                  /\ \A n \in 1..(m - 1) :
                        <<quali_data[n].Year, quali_data[n].BroadcastName>> # pair
                  /\ timeline_data[i].team = quali_data[m].TeamName

(* a returned list with a driver entered in two seasons and an entry      *)
(* whose driver has a later row of the same season with another team      *)
C18_Witness ==
    /\ Done
    /\ \E i, j \in DOMAIN timeline_data :
        /\ timeline_data[i].driver = timeline_data[j].driver
        /\ timeline_data[i].year # timeline_data[j].year
    /\ \E i \in DOMAIN timeline_data : \E m \in DOMAIN quali_data :
        /\ quali_data[m].Year = timeline_data[i].year
        /\ quali_data[m].BroadcastName = timeline_data[i].driver
        /\ timeline_data[i].team # NoTeam
        /\ quali_data[m].TeamName # timeline_data[i].team

(* C19: a driver whose first row of a season has no team name has no      *)
(* entry for that season in the returned list, the other drivers of the   *)
(* season have theirs.                                                     *)
C19_UnresolvedTeamOmitted ==
    Done =>
    \A pair \in DriverSeasons :
        LET first == CHOOSE m \in DOMAIN quali_data :
                        /\ <<quali_data[m].Year, quali_data[m].BroadcastName>> = pair
                        /\ \A n \in 1..(m - 1) :
                              <<quali_data[n].Year, quali_data[n].BroadcastName>> # pair
        IN  IF quali_data[first].TeamName = NoTeam
            THEN EntriesOf(pair) = {}
            ELSE Cardinality(EntriesOf(pair)) = 1

(* C20: when one of the 13 required columns is absent from the table, the *)
(* call raises the missing-columns error before any season is processed:  *)
(* no mapping is built, no season entered, no entry produced.              *)
C20_MissingColumnRaises ==
    /\ Len(required_columns) = 13
    /\ (\E k \in DOMAIN required_columns : required_columns[k] \notin columns) =>
          /\ pc \in {"start", "raised"}
          /\ driver_team_mapping = <<>>
          /\ year_idx = 0
          /\ timeline_data = <<>>

(* the call has raised on a table without the WetSession column *)
C20_Witness ==
    /\ pc = "raised"
    /\ "WetSession" \notin columns
    /\ quali_data # <<>>
    /\ timeline_data = <<>>

----------------------------------------------------------------------------
(* Vocabulary of the stint properties *)

Segmented == pc \in {"segmented", "shown"}

(* the full event list of a season, in schedule order *)
SeasonEvents(year) ==
    unique(Column(SelectSeq(quali_data, LAMBDA r : r.Year = year), "EventName"))

(* the team names of the driver's rows of the season, in schedule order *)
TeamsInOrder(year, driver) ==
    LET row(e) == CHOOSE m \in DOMAIN quali_data :
                      /\ quali_data[m].Year = year
                      /\ quali_data[m].EventName = e
                      /\ quali_data[m].BroadcastName = driver
        attended == SelectSeq(SeasonEvents(year),
                        LAMBDA e : \E m \in DOMAIN quali_data :
                            /\ quali_data[m].Year = year
                            /\ quali_data[m].EventName = e
                            /\ quali_data[m].BroadcastName = driver)
    IN  [k \in DOMAIN attended |-> quali_data[row(attended[k])].TeamName]

(* the number of maximal contiguous same-team runs of the driver's rows *)
TeamRuns(year, driver) ==
    LET teams == TeamsInOrder(year, driver)
    IN  1 + Cardinality({k \in 1..(Len(teams) - 1) : teams[k] # teams[k + 1]})

StintsOf(year, driver) ==
    SelectSeq(stint_data[1], LAMBDA r : r.year = year /\ r.driver = driver)

RoundsOf(entry) == [k \in DOMAIN entry.events |-> entry.events[k].round]

PositionIn(list, x) == CHOOSE k \in DOMAIN list : list[k] = x

(* C11: a driver-season whose rows form k maximal contiguous same-team    *)
(* runs has exactly k stint entries, ordered by first event index; their  *)
(* event lists are non-empty blocks of consecutive season events, do not  *)
(* overlap, and put end to end are the full event list of the season.     *)
C11_StintsPartitionSeason ==
    Segmented =>
    \A pair \in DriverSeasons :
        LET st == StintsOf(pair[1], pair[2])
            season == SeasonEvents(pair[1])
        IN  /\ Len(st) = TeamRuns(pair[1], pair[2])
            /\ \A j \in DOMAIN st : st[j].events # <<>>
            /\ Concat([j \in DOMAIN st |-> RoundsOf(st[j])]) = season
            /\ \A j \in DOMAIN st : \A k \in 1..(Len(st[j].events) - 1) :
                  PositionIn(season, st[j].events[k + 1].round)
                    = PositionIn(season, st[j].events[k].round) + 1
            /\ \A i, j \in DOMAIN st :
                  (i < j) =>
                    /\ Range(RoundsOf(st[i])) \cap Range(RoundsOf(st[j])) = {}
                    /\ PositionIn(season, st[i].events[1].round)
                         < PositionIn(season, st[j].events[1].round)
            /\ \A j \in DOMAIN st : \A m \in DOMAIN quali_data :
                  (/\ quali_data[m].Year = pair[1]
                   /\ quali_data[m].BroadcastName = pair[2]
                   /\ quali_data[m].EventName \in Range(RoundsOf(st[j])))
                  => quali_data[m].TeamName = st[j].team

(* a season split into three stints, the driver back in the first team *)
C11_Witness ==
    /\ Segmented
    /\ \E pair \in DriverSeasons :
        /\ TeamRuns(pair[1], pair[2]) = 3
        /\ Len(StintsOf(pair[1], pair[2])) = 3
        /\ StintsOf(pair[1], pair[2])[1].team = StintsOf(pair[1], pair[2])[3].team
    /\ \E pair \in DriverSeasons :
        /\ Len(StintsOf(pair[1], pair[2])) = 1
        /\ Len(StintsOf(pair[1], pair[2])[1].events) = 3

(* C12: a driver with the same team in every row of a season has exactly  *)
(* one stint entry for the season; it spans the full event list in order  *)
(* and has the events and aggregates of the season entry of the driver.   *)
SingleTeam(pair) == TeamRuns(pair[1], pair[2]) = 1
C12_SingleTeamSeasonUnsplit ==
    Segmented =>
    \A pair \in DriverSeasons :
        SingleTeam(pair) =>
            /\ Len(StintsOf(pair[1], pair[2])) = 1
            /\ RoundsOf(StintsOf(pair[1], pair[2])[1]) = SeasonEvents(pair[1])
            /\ Cardinality(EntriesOf(pair)) = 1
            /\ \A i \in EntriesOf(pair) :
                  LET stint == StintsOf(pair[1], pair[2])[1]
                      entry == timeline_data[i]
                  IN  /\ stint.team = entry.team
                      /\ stint.events = entry.events
                      /\ stint.avgQualifyingPosition = entry.avgQualifyingPosition
                      /\ stint.avgGapToPole = entry.avgGapToPole
                      /\ stint.avgTeammateGap = entry.avgTeammateGap
                      /\ stint.dataCompleteness = entry.dataCompleteness

(* a single-team driver with a gap to pole and a teammate gap, in a season *)
(* another driver split into stints                                        *)
C12_Witness ==
    /\ Segmented
    /\ \E pair \in DriverSeasons :
        /\ SingleTeam(pair)
        /\ Len(StintsOf(pair[1], pair[2])) = 1
        /\ Len(StintsOf(pair[1], pair[2])[1].events) = 3
        /\ notna(StintsOf(pair[1], pair[2])[1].avgGapToPole)
        /\ notna(StintsOf(pair[1], pair[2])[1].avgTeammateGap)
        /\ \E other \in DriverSeasons :
              other[1] = pair[1] /\ Len(StintsOf(other[1], other[2])) > 1

(* C13: in the panels of the selected driver, a season of several stints  *)
(* has one transition marker for each stint after the first, equal to the *)
(* index (from 0) of the stint's start_event in the full event ordering   *)
(* of the season, which is the number of events of the stints before it;  *)
(* the number of markers is the number of stints minus one.                *)
C13_TransitionMarkers ==
    (pc = "shown") =>
    \A p \in DOMAIN panels[1].years :
        LET panel == panels[1].years[p]
            st == StintsOf(panel.year, panels[1].driver)
            season == SeasonEvents(panel.year)
        IN  /\ Len(panel.transitions) = Len(st) - 1
            /\ \A j \in 1..(Len(st) - 1) :
                  /\ panel.transitions[j]
                       = PositionIn(season, st[j + 1].teamStintInfo.start_event) - 1
                  /\ panel.transitions[j]
                       = SumSeq([i \in 1..j |-> Len(st[i].events)])

----------------------------------------------------------------------------
(* C22: on a table with all required columns, whatever null positions,    *)
(* null segment times, missing drivers at events or events without a      *)
(* position-1 row it holds, process_qualifying_data never raises and      *)
(* never stops before its return, and the returned summaries cover every  *)
(* event of the season with each gap reported as a null field.             *)
NoSegmentTime(row) ==
    isna(row.Q1Seconds) /\ isna(row.Q2Seconds) /\ isna(row.Q3Seconds)
NoPoleRow(event_data) ==
    \A m \in DOMAIN event_data : event_data[m].Position # Some(1)
C22_SparseInputCompletes ==
    (columns = Range(required_columns)) =>
    /\ pc # "raised"
    /\ (pc = "drivers") =>
          (pending # {} /\ year_idx \in DOMAIN all_years(quali_data))
    /\ Done =>
          \A i \in DOMAIN timeline_data :
            /\ Len(Summaries(i)) = Len(SeasonEvents(timeline_data[i].year))
            /\ \A k \in DOMAIN Summaries(i) :
                LET summary == Summaries(i)[k]
                    own == OwnRows(i, k)
                IN  /\ (own = <<>>) =>
                          /\ isna(summary.position)
                          /\ isna(summary.gapToPole)
                          /\ isna(summary.teammateGap)
                    /\ (own # <<>>) => summary.position = own[1].Position
                    /\ (own # <<>> /\ isna(own[1].Position)) => isna(summary.gapToPole)
                    /\ (own # <<>> /\ own[1].Position # Some(1)
                           /\ NoSegmentTime(own[1])) => isna(summary.gapToPole)
                    /\ (own # <<>> /\ NoSegmentTime(own[1])) => isna(summary.teammateGap)
                    /\ (own # <<>> /\ own[1].Position # Some(1)
                           /\ NoPoleRow(RowsAt(i, k))) => isna(summary.gapToPole)

(* a returned entry with a missed event, and a summary of a driver with   *)
(* neither a position nor a segment time                                   *)
C22_Witness ==
    /\ Done
    /\ \E i \in DOMAIN timeline_data : \E k \in DOMAIN Summaries(i) :
          OwnRows(i, k) = <<>>
    /\ \E i \in DOMAIN timeline_data : \E k \in DOMAIN Summaries(i) :
          /\ OwnRows(i, k) # <<>>
          /\ isna(OwnRows(i, k)[1].Position)
          /\ NoSegmentTime(OwnRows(i, k)[1])

(* C23: every returned entry has exactly the keys year, driver, team,     *)
(* events, avgQualifyingPosition, avgGapToPole, avgTeammateGap and        *)
(* dataCompleteness, a stint entry these and teamStintInfo; no            *)
(* accumulator key is left in a returned entry.                            *)
EntryKeys ==
    {"year", "driver", "team", "events", "avgQualifyingPosition",
     "avgGapToPole", "avgTeammateGap", "dataCompleteness"}
AccumulatorKeys ==
    {"positions", "gapToPole_values", "teammateGap_values",
     "completeDataCount", "totalEvents"}
C23_ReturnedKeys ==
    /\ (Done \/ Segmented) =>
          \A i \in DOMAIN timeline_data :
              /\ DOMAIN timeline_data[i] = EntryKeys
              /\ DOMAIN timeline_data[i] \cap AccumulatorKeys = {}
    /\ Segmented =>
          \A j \in DOMAIN stint_data[1] :
              DOMAIN stint_data[1][j] = EntryKeys \cup {"teamStintInfo"}

(* a returned list of two entries, after a state in which the entries     *)
(* carried their accumulators                                              *)
C23_Witness ==
    /\ Done
    /\ Len(timeline_data) >= 2
    /\ \A i \in DOMAIN timeline_data : "totalEvents" \notin DOMAIN timeline_data[i]

----------------------------------------------------------------------------
(* Vocabulary of the CLI properties *)

(* the files of the input folder pandas can read *)
ReadableFiles ==
    IF data_folder = NaN THEN {}
    ELSE {data_folder[1][i] : i \in {j \in DOMAIN data_folder[1] : data_folder[1][j].readable}}
(* a column the processing requires is in none of the files read *)
LacksColumn ==
    /\ ReadableFiles # {}
    /\ \E col \in CsvColumns : \A file \in ReadableFiles : col \notin file.columns
(* a duration cell of a file read holds a text that is no duration *)
MalformedCell ==
    \E file \in ReadableFiles : \E k \in DOMAIN file.rows :
        \E col \in {"Q1", "Q2", "Q3"} \cap DOMAIN file.rows[k] :
            ~ WellFormed(file.rows[k][col])

(* C21: in a run of generate_dashboard_data the output file is written    *)
(* only after convert_time and process_qualifying_data have completed     *)
(* without error; a run on an input with a structural violation (a        *)
(* required column missing, a cell that is no duration) creates no output *)
(* file and leaves an existing one unchanged.                              *)
C21_WriteOnlyAfterSuccess ==
    /\ (output_file # output_before) =>
          /\ pc \in {"written", "exit"}
          /\ output_file = Some(timeline_data)
          /\ ReadableFiles # {}
          /\ ~ LacksColumn
          /\ ~ MalformedCell
          /\ \A i \in DOMAIN timeline_data : DOMAIN timeline_data[i] = EntryKeys
    /\ (LacksColumn \/ MalformedCell) =>
          /\ output_file = output_before
          /\ pc \in {"main", "start", "raised"}
    /\ (pc = "raised") => (output_file = output_before)

(* a run over an older output file that raised in process_qualifying_data, *)
(* after convert_time, on files without the WetSession column              *)
C21_Witness ==
    /\ pc = "raised"
    /\ LacksColumn
    /\ ~ MalformedCell
    /\ {"Q1Seconds", "Q2Seconds", "Q3Seconds"} \subseteq columns
    /\ output_before # NaN
    /\ output_file = output_before

(* C26: combine_csv_files raises FileNotFoundError when the folder does   *)
(* not exist; when it exists, a CSV file that cannot be read is skipped   *)
(* and the others are still combined, and None is returned only when no   *)
(* file was read.                                                           *)
C26_CombineCsvFiles ==
    (pc \in {"nodata", "start", "raised"}) =>
    /\ (data_folder = NaN) => (pc = "raised")
    /\ (data_folder # NaN) =>
          /\ (pc = "nodata") <=> (ReadableFiles = {})
          /\ (pc # "nodata") =>
                Len(quali_data) =
                    SumSeq([i \in DOMAIN data_folder[1] |->
                               IF data_folder[1][i].readable
                               THEN Len(data_folder[1][i].rows) ELSE 0])

(* C30: the CLI reports that the dashboard data was generated only when   *)
(* the output file was written in that run; when no CSV file could be     *)
(* read, no output file is written and no success is reported.             *)
C30_SuccessOnlyWhenWritten ==
    /\ reported => (output_file = Some(timeline_data) /\ output_file # output_before)
    /\ (ReadableFiles = {}) => (~ reported /\ output_file = output_before)

----------------------------------------------------------------------------
(* Vocabulary of the collector's properties *)

Fetching == pc \in {"year", "schedule", "events", "returned"}
BetweenYears == pc \in {"year", "returned"}
FinishedYears == 1..(fetch_idx - 1)
LastFinished(i) == BetweenYears /\ i = Len(year_log) /\ i = fetch_idx - 1
SuccessAfter(i) ==
    IF i < Len(year_log) THEN year_log[i + 1].success_before ELSE Len(results.success)
FailedAfter(i) ==
    IF i < Len(year_log) THEN year_log[i + 1].failed_before ELSE Len(results.failed)
InSuccess(i) ==
    /\ SuccessAfter(i) = year_log[i].success_before + 1
    /\ results.success[SuccessAfter(i)] = fetch_years[i]
    /\ FailedAfter(i) = year_log[i].failed_before
InFailed(i) ==
    /\ FailedAfter(i) = year_log[i].failed_before + 1
    /\ results.failed[FailedAfter(i)] = fetch_years[i]
    /\ SuccessAfter(i) = year_log[i].success_before
Ops(log) == [k \in DOMAIN log |-> log[k].op]
Attempts(log) == Len(SelectSeq(log, LAMBDA e : e.op \in {"ok", "fail"}))

(* C24: a failing year does not stop the loop of fetch_qualifying_data:     *)
(* every year handled so far was appended exactly once, to exactly one of  *)
(* 'success' and 'failed', in request order, no exception leaves the call, *)
(* and when the call returns every requested year has been handled, so     *)
(* len(success) + len(failed) is the number of requested years.            *)
C24_EveryYearReported ==
    /\ (fetch_idx > 0) => Fetching
    /\ Fetching =>
          /\ Len(results.success) + Len(results.failed) = fetch_idx - 1
          /\ \A i \in FinishedYears :
                /\ year_log[i].year = fetch_years[i]
                /\ InSuccess(i) # InFailed(i)
          /\ (pc = "returned") =>
                /\ Len(year_log) = Len(fetch_years)
                /\ Len(results.success) + Len(results.failed) = Len(fetch_years)

C24_Witness ==
    /\ pc = "returned"
    /\ Len(fetch_years) = 2
    /\ year_log[1].csv_error
    /\ InFailed(1)
    /\ ~year_log[2].skipped
    /\ InSuccess(2)

(* C25: _get_schedule asks for the schedule at most max_retries times,      *)
(* stops at the first answer and returns it, sleeps the fixed delay after  *)
(* every failed attempt but the last, returns None when max_retries        *)
(* attempts have failed, and neither raises nor goes on for ever.           *)
C25_BoundedRetries ==
    LET log == schedule_log
        ops == Ops(log)
    IN  /\ Attempts(log) <= max_retries
        /\ (pc = "schedule") =>
              /\ attempt < max_retries
              /\ Attempts(log) = attempt
              /\ schedule = NaN
        /\ \A k \in DOMAIN log :
              /\ (ops[k] = "ok") => (k = Len(log) /\ schedule # NaN)
              /\ (ops[k] = "sleep") =>
                    /\ log[k].secs = delay
                    /\ k > 1 /\ ops[k - 1] = "fail"
                    /\ (k < Len(log)) \/ (pc = "schedule")
              /\ (ops[k] = "fail" /\ k < Len(log)) => (ops[k + 1] = "sleep")
              /\ (ops[k] = "fail" /\ k = Len(log)) =>
                    /\ Attempts(log) = max_retries
                    /\ schedule = NaN
                    /\ BetweenYears
                    /\ InFailed(fetch_idx - 1)
        /\ (log # <<>>) => (pc # "raised")

C25_Witness ==
    /\ Ops(schedule_log) = <<"fail", "sleep", "fail", "sleep", "fail">>
    /\ schedule = NaN
    /\ pc = "year"
    /\ InFailed(fetch_idx - 1)

Kept(data, tried) == SelectSeq(tried, LAMBDA e : \E k \in DOMAIN data : data[k] = e)

(* C27: a year that is not skipped ends in 'success' exactly when its      *)
(* schedule was obtained, at least one of its events loaded and its CSV    *)
(* was written; every event of the schedule is requested once, in order,   *)
(* whether or not earlier events loaded, and a year with a failed load is  *)
(* still a success when another event loaded and to_csv did not raise.     *)
C27_YearOutcome ==
    /\ \A i \in FinishedYears :
          LET y == year_log[i]
          IN  ~y.skipped =>
                /\ InSuccess(i) <=> (y.scheduled /\ y.loaded # <<>> /\ y.written)
                /\ (y.scheduled /\ y.loaded # <<>> /\ ~y.csv_error) => InSuccess(i)
                /\ y.written => ~y.csv_error
                /\ (LastFinished(i) /\ y.scheduled) =>
                      /\ y.tried = schedule[1]
                      /\ y.loaded = yearly_data
                      /\ y.written => csv_files[y.year] = Some(y.loaded)
    /\ (pc = "events") =>
          /\ year_log[fetch_idx].tried = SubSeq(schedule[1], 1, event_idx - 1)
          /\ yearly_data = Kept(yearly_data, year_log[fetch_idx].tried)

C27_Witness ==
    /\ BetweenYears
    /\ \E i \in FinishedYears :
          /\ ~year_log[i].skipped
          /\ year_log[i].tried = <<"R1", "R2">>
          /\ year_log[i].loaded = <<"R2">>
          /\ year_log[i].written
          /\ InSuccess(i)

(* C28: a year whose CSV exists is, with reload off, put in 'success'      *)
(* without a schedule request, a session load or a change of the file;     *)
(* with reload on it is fetched again, and its file is replaced, by the    *)
(* events just loaded, only when at least one event loaded.                *)
C28_SkipExistingUnlessReload ==
    \A i \in FinishedYears :
        LET y == year_log[i]
        IN  /\ (y.existed /\ ~reload) =>
                  /\ y.skipped /\ InSuccess(i)
                  /\ ~y.scheduled /\ y.tried = <<>> /\ ~y.written
                  /\ LastFinished(i) =>
                        /\ schedule_log = <<>>
                        /\ yearly_data = <<>>
                        /\ csv_files[y.year] = y.file_before
            /\ (y.existed /\ reload) =>
                  /\ ~y.skipped
                  /\ y.written => y.loaded # <<>>
                  /\ LastFinished(i) =>
                        /\ Attempts(schedule_log) >= 1
                        /\ y.scheduled => y.tried = schedule[1]
                        /\ (csv_files[y.year] # y.file_before) => y.loaded # <<>>
                        /\ y.written => csv_files[y.year] = Some(y.loaded)
                        /\ (y.loaded = <<>>) => csv_files[y.year] = y.file_before

C28_Witness ==
    /\ pc = "year"
    /\ ~reload
    /\ Len(year_log) = 2
    /\ LastFinished(2)
    /\ year_log[1].written
    /\ year_log[2].existed
    /\ year_log[2].skipped
    /\ InSuccess(2)
    /\ csv_files[year_log[2].year] = Some(OlderCsv)

(* C29: the constructor of F1DataFetcher completes whenever the            *)
(* directories can be created and the cache can be enabled, whatever       *)
(* loggers the process has registered.                                     *)
C29_ConstructorCompletes ==
    (pc # "new" /\ mkdir_ok /\ cache_ok) => pc \notin {"raised", "sysexit"}


====
